---- MODULE Spec2Model ----
(***************************************************************************)
(* Model of the packet ingestion and relay mapping engine of the ESP32     *)
(* relay controller (src/src/main.cpp): the Art-Net, E1.31 and DDP paths   *)
(* of handlePackets(), setRelay(), the liveness timeout and the HTTP       *)
(* handlers that set a relay or remap its GPIO.                            *)
(*                                                                         *)
(* Bytes are numbers 0..255.  A datagram is a sequence of bytes; the byte  *)
(* at C index k is d[k+1].  packetBuffer is a function on 0..639.          *)
(*                                                                         *)
(* Scheduling.  loop() calls handlePackets() again and again.  The UDP     *)
(* stack and the ESPAsyncE131 receiver run outside loop(): a datagram may  *)
(* arrive, and an E1.31 packet may be enqueued, at any point, also while   *)
(* the E1.31 drain loop of handlePackets() is running.  handlePackets() is *)
(* therefore split at the head of its while loop (pc).  The HTTP handlers  *)
(* are taken between two calls of handlePackets().                         *)
(***************************************************************************)
EXTENDS Integers, Sequences, FiniteSets, TLC

\* ------------------------------------------------------------ constants
ARTNET_SUBNET == 0
ARTNET_UNIVERSE == 41
ARTNET_ARTDMX == 20480
ARTNET_START_ADDRESS == 18
DDP_HEADER_LEN == 10
ETHERNET_BUFFER_MAX == 640
STATUS_LED == 2
NUM_RELAYS == 8
\* ESPAsyncE131 e131(10)
QueueDepth == 10
\* millis() - currentDelay > 30000
TimeoutMs == 30000
\* gpio > 39 is refused by /api/set_gpio
MaxGpio == 39
\* gpio == 0xFF is unmapped
GpioNone == 255

\* widths
U8 == 256
U16 == 65536

\* -------------------------------------------------------------- bounds
\* datagrams and E1.31 packets that arrive in one behaviour of Spec
MaxArrivals == 3
\* datagrams waiting at one UDP socket
MaxSock == 2
\* remaps through /api/set_gpio in one behaviour
MaxRemaps == 1
\* manual /api/set calls in one behaviour
MaxSets == 1
\* milliseconds a behaviour runs after its first state
MaxTime == 30001
\* E1.31 packets the flood specification lets one call of handlePackets pull
MaxPulls == 257

Relays == 0..(NUM_RELAYS - 1)
Pins == 0..MaxGpio

Min(a, b) == IF a < b THEN a ELSE b

VARIABLES
  cfg,              \* DeviceConfig: universe, startChan, gpio of each relay
  relayState,       \* bool relayState[NUM_RELAYS]
  pinLevel,         \* level of each GPIO: "INPUT" (never driven), "LOW", "HIGH"
  packetBuffer,     \* uint8_t packetBuffer[ETHERNET_BUFFER_MAX]
  aUDP,             \* datagrams waiting at the Art-Net socket
  ddpUDP,           \* datagrams waiting at the DDP socket
  e131,             \* the ring buffer of the E1.31 receiver
  packet,           \* e131_packet_t packet, the local of the drain loop
  currentcounter,   \* volatile byte
  previouscounter,  \* byte
  currentDelay,     \* unsigned long
  epoch,            \* millis() in the first state
  clock,            \* milliseconds since the first state
  pc,               \* where handlePackets() stands: "loop", "drain", "ddp", "for"
  fi,               \* len and i of ddpReceived() while pc = "for"
  op,               \* the step that led to this state
  rxlen,            \* packetSize of the datagram read last
  reads,            \* packetBuffer indices read by the last step
  wr,               \* pins written with digitalWrite by the last step
  calls,            \* <<index, byte, on>> of every setRelay a frame issued in the last step
  pulled,           \* E1.31 packets pulled by this call of handlePackets, up to MaxPulls
  q0,               \* the E1.31 queue when this call of handlePackets began
  rs0,              \* relayState when this call of handlePackets began
  enq,              \* an E1.31 packet was enqueued during this call's drain
  lastFrame,        \* clock at which a frame was counted last, -1 before the first
  arrived,          \* datagrams and packets arrived so far
  remaps,           \* /api/set_gpio calls so far
  sets,             \* /api/set calls so far
  seen              \* the relay states the last GET /api/config reported

prog == <<cfg, relayState, pinLevel, packetBuffer, aUDP, ddpUDP, e131, packet,
          currentcounter, previouscounter, currentDelay, epoch, clock, pc, fi>>
ghost == <<op, rxlen, reads, wr, calls, pulled, q0, rs0, enq, lastFrame,
           arrived, remaps, sets, seen>>
vars == <<prog, ghost>>

\* ------------------------------------------------- 32-bit unsigned values
\* A uint32_t is the pair <<hi, lo>> of its 16-bit halves (the checker's
\* integers are 32-bit signed).
U32Of(n) == <<(n \div U16) % U16, n % U16>>

\* a + b in uint32_t
Add32(a, b) ==
  LET lo == a[2] + b[2]
      hi == a[1] + b[1] + (lo \div U16)
  IN <<hi % U16, lo % U16>>

\* a - b in uint32_t
Sub32(a, b) ==
  LET lo == a[2] - b[2]
      hi == a[1] - b[1] - (IF lo < 0 THEN 1 ELSE 0)
  IN <<(hi + U16) % U16, (lo + U16) % U16>>

\* a < b, a a uint32_t and b an int in 0..65535
Lt32(a, b) == a[1] = 0 /\ a[2] < b

\* a > b, a a uint32_t and b an int in 0..65535
Gt32(a, b) == a[1] > 0 \/ a[2] > b

\* unsigned long millis()
Millis == Add32(epoch, U32Of(clock))

\* ---------------------------------------------------------- relay helpers
\* mutant: gpio 0 is driven
IsUnmappedOnlyFF(gpio) == gpio = GpioNone

\* if (gpio == 0xFF || gpio == 0) return;
IsUnmapped(gpio) == gpio = GpioNone \/ gpio = 0

\* HIGH = ON, LOW = OFF
Level(on) == IF on THEN "HIGH" ELSE "LOW"

\* The hardware view a handler works on: relayState, the pin levels, and the
\* pins written and the setRelay calls issued so far by the step;
\* rd: the packetBuffer indices read so far by the step.
Hw0 == [rs |-> relayState, pin |-> pinLevel, wr |-> {}, calls |-> {}, rd |-> {}]

\* void setRelay(uint8_t index, bool on)
setRelay(h, gp, index, on) ==
  IF index >= NUM_RELAYS THEN h
  ELSE IF IsUnmapped(gp[index]) THEN h
  ELSE [h EXCEPT !.pin[gp[index]] = Level(on),
                 !.wr = @ \cup {gp[index]},
                 !.rs[index] = on]

\* digitalWrite(pin, level) outside setRelay
digitalWrite(h, p, level) ==
  [h EXCEPT !.pin[p] = level, !.wr = @ \cup {p}]

\* mutant: the threshold one too low
DecideFrom127(v) == v >= 127

\* bool on = (v > 127);
Decide(v) == v > 127

\* uint8_t v = ...; bool on = (v > 127); setRelay(i, on);
ApplyByte(h, gp, i, v) ==
  LET h1 == setRelay(h, gp, i, Decide(v))
  IN [h1 EXCEPT !.calls = @ \cup {<<i, v, Decide(v)>>}]

\* ------------------------------------------------------------- Art-Net
\* "Art-Net" and its terminating NUL
ArtNetId == <<65, 114, 116, 45, 78, 101, 116, 0>>

\* String test = String((char*)pbuff); test.equals("Art-Net"):
\* the C string at pbuff is "Art-Net" when bytes 0..6 spell it and byte 7 is NUL.
IsArtNetString(pbuff) == \A k \in 0..7 : pbuff[k] = ArtNetId[k + 1]

\* int artNetOpCode(uint8_t* pbuff)
artNetOpCode(pbuff) ==
  IF IsArtNetString(pbuff)
  THEN IF pbuff[11] >= 14 THEN pbuff[9] * 256 + pbuff[8] ELSE 0
  ELSE 0

\* the packetBuffer indices artNetOpCode reads: the string up to its NUL
\* (bytes 0..7 when it is "Art-Net"), then byte 11, then bytes 9 and 8
ArtOpCodeReads(pbuff) ==
  LET nul == {k \in 0..(ETHERNET_BUFFER_MAX - 1) : pbuff[k] = 0}
      first == IF nul = {} THEN ETHERNET_BUFFER_MAX
               ELSE CHOOSE k \in nul : \A j \in nul : k <= j
  IN (0..first)
     \cup (IF IsArtNetString(pbuff) THEN {11} ELSE {})
     \cup (IF IsArtNetString(pbuff) /\ pbuff[11] >= 14 THEN {8, 9} ELSE {})

\* (pbuff[14] & 0xF) == ARTNET_UNIVERSE
ArtUniverseMatches(pbuff) == (pbuff[14] % 16) = ARTNET_UNIVERSE

\* (pbuff[14] >> 8) == ARTNET_SUBNET
ArtSubnetMatches(pbuff) == (pbuff[14] \div 256) = ARTNET_SUBNET

\* for (int b = 0; b < NUM_RELAYS; b++) { val = pbuff[18 + channelOffset]; ... }
RECURSIVE ArtLoop(_, _, _, _)
ArtLoop(h, gp, pbuff, b) ==
  IF b >= NUM_RELAYS THEN h
  ELSE LET idx == ARTNET_START_ADDRESS + b
           h1 == ApplyByte(h, gp, b, pbuff[idx])
       IN ArtLoop([h1 EXCEPT !.rd = @ \cup {idx}], gp, pbuff, b + 1)

\* void artDMXReceived(uint8_t* pbuff)
artDMXReceived(h, gp, pbuff) ==
  LET h0 == [h EXCEPT !.rd = @ \cup {14}]
  IN IF ArtUniverseMatches(pbuff)
     THEN IF ArtSubnetMatches(pbuff) THEN ArtLoop(h0, gp, pbuff, 0) ELSE h0
     ELSE h0

\* ----------------------------------------------------------------- DDP
\* uint32_t offset = buf[2] << 24 | buf[3] << 16 | buf[4] << 8 | buf[5]
DdpOffset(buf) == <<buf[2] * 256 + buf[3], buf[4] * 256 + buf[5]>>

\* uint16_t dataLen = (buf[6] << 8) | buf[7]
DdpDeclaredLen(buf) == buf[6] * 256 + buf[7]

\* mutant: the declared length is trusted
DdpDataLenTrusted(buf, len) == DdpDeclaredLen(buf)

\* if (DDP_HEADER_LEN + dataLen > len) dataLen = len - DDP_HEADER_LEN;
DdpDataLen(buf, len) ==
  IF DDP_HEADER_LEN + DdpDeclaredLen(buf) > len
  THEN (len - DDP_HEADER_LEN) % U16
  ELSE DdpDeclaredLen(buf)

\* for (int i = 0; i < NUM_RELAYS; i++) { chanIndex = offset + i; if (chanIndex >= dataLen) break; ... }
RECURSIVE DdpLoop(_, _, _, _, _, _)
DdpLoop(h, gp, buf, offset, dataLen, i) ==
  IF i >= NUM_RELAYS THEN h
  ELSE LET chanIndex == Add32(offset, U32Of(i))
       IN IF ~Lt32(chanIndex, dataLen) THEN h
          ELSE LET idx == DDP_HEADER_LEN + chanIndex[2]
                   h1 == ApplyByte(h, gp, i, buf[idx])
               IN DdpLoop([h1 EXCEPT !.rd = @ \cup {idx}], gp, buf, offset, dataLen, i + 1)

\* void ddpReceived(uint8_t* buf, int len)
ddpReceived(h, gp, buf, len) ==
  IF len <= DDP_HEADER_LEN THEN h
  ELSE DdpLoop([h EXCEPT !.rd = @ \cup (2..7)], gp, buf,
               DdpOffset(buf), DdpDataLen(buf, len), 0)

\* --------------------------------------------------------------- E1.31
\* packet.property_values[chan]; values holds property_values[0..count-1]
PropertyValue(pkt, chan) ==
  IF chan + 1 <= Len(pkt.values) THEN pkt.values[chan + 1] ELSE 0

\* mutant: off by one
PastCountOffByOne(chan, count) == chan > count

\* if (chan >= packet.property_value_count) break;
PastCount(chan, count) == chan >= count

\* for (int i = 0; i < NUM_RELAYS; i++) { uint16_t chan = cfg.startChan + i; if (...) break; ... }
RECURSIVE E131Loop(_, _, _, _, _)
E131Loop(h, gp, startChan, pkt, i) ==
  IF i >= NUM_RELAYS THEN h
  ELSE LET chan == (startChan + i) % U16
       IN IF PastCount(chan, pkt.count) THEN h
          ELSE E131Loop(ApplyByte(h, gp, i, PropertyValue(pkt, chan)),
                        gp, startChan, pkt, i + 1)

\* -------------------------------------------------------------- inputs
\* the bytes seq placed at C indices base, base+1, ...
Place(base, seq) == [k \in base..(base + Len(seq) - 1) |-> seq[k - base + 1]]

\* a datagram of len bytes: the bytes of `at` where it is defined, 0 elsewhere
Dgram(len, at) == [k \in 1..len |-> IF (k - 1) \in DOMAIN at THEN at[k - 1] ELSE 0]

ArtDgram(len, sig, ver, opcode, b14, chans) ==
  Dgram(len, Place(0, sig) @@ Place(8, <<opcode % 256, opcode \div 256>>)
             @@ Place(11, <<ver>>) @@ Place(14, <<b14>>)
             @@ Place(ARTNET_START_ADDRESS, chans))

\* offset is a uint32_t <<hi, lo>>
DdpDgram(len, offset, dataLen, payload) ==
  Dgram(len, Place(0, <<65, 1>>)
             @@ Place(2, <<offset[1] \div 256, offset[1] % 256,
                           offset[2] \div 256, offset[2] % 256>>)
             @@ Place(6, <<dataLen \div 256, dataLen % 256>>)
             @@ Place(DDP_HEADER_LEN, payload))

ArtChans == <<200, 0, 127, 128, 255, 0, 128, 127>>

\* ArtDMX for universe 41 (low nibble 41 % 16 = 9), subnet 0
ArtDmxOurs == ArtDgram(26, ArtNetId, 14, ARTNET_ARTDMX, ARTNET_UNIVERSE % 16, ArtChans)
\* ArtDMX for another universe
ArtDmxOther == ArtDgram(26, ArtNetId, 14, ARTNET_ARTDMX, 1, ArtChans)
\* ArtPoll
ArtPoll == ArtDgram(14, ArtNetId, 14, 8192, 0, <<>>)
\* not Art-Net at all
ArtBadSig == ArtDgram(26, <<65, 114, 116, 45, 78, 101, 120, 0>>, 14, ARTNET_ARTDMX, 9, ArtChans)

\* the seven characters "Art-Net" and nothing else
ArtTrunc == <<65, 114, 116, 45, 78, 101, 116>>

ArtDatagrams == {ArtDmxOurs, ArtDmxOther, ArtPoll, ArtBadSig}

DdpChans == <<255, 0, 127, 128, 200, 0, 255, 1>>

\* offset 0, dataLen 8: a full frame
DdpFull == DdpDgram(18, U32Of(0), 8, DdpChans)
\* offset 0, dataLen 3: relays 0..2 only
DdpThree == DdpDgram(18, U32Of(0), 3, <<0, 255, 128, 255, 255, 255, 255, 255>>)
\* declared dataLen 65535 with 3 bytes of payload: clamped
DdpLying == DdpDgram(13, U32Of(0), 65535, <<128, 127, 255>>)
\* no longer than the header
DdpShort == DdpDgram(5, U32Of(0), 8, <<>>)
\* offset 2^32 - 1: offset + i wraps for i >= 1
DdpWrap == DdpDgram(18, <<U16 - 1, U16 - 1>>, 8, DdpChans)
\* offset 3: relays 0..4 take payload bytes 3..7
DdpOffset3 == DdpDgram(18, U32Of(3), 8, DdpChans)
\* longer than packetBuffer: read as 640 bytes, payload bytes 625..629 used
DdpHuge == DdpDgram(700, U32Of(625), 690, [k \in 1..690 |-> IF k % 2 = 0 THEN 255 ELSE 0])

DdpDatagrams == {DdpFull, DdpThree, DdpLying, DdpShort, DdpWrap, DdpOffset3, DdpHuge}

\* an e131_packet_t as the drain loop sees it
E131Packet(values) == [count |-> Len(values), values |-> values]

\* start code 0, channels 1..8
E131Full == E131Packet(<<0, 200, 0, 127, 128, 255, 0, 128, 127>>)
\* property_value_count = 5: channels 1..4
E131Five == E131Packet(<<0, 255, 255, 0, 128>>)
\* a non-zero start code, channels 1..3
E131Alt == E131Packet(<<221, 0, 255, 0>>)

E131Packets == {E131Full, E131Five, E131Alt}
NoPacket == [count |-> 0, values |-> <<>>]

\* cfg.startChan = prefs.getUShort("s", 1): any uint16_t
StartChans == {0, 1, 4, 10, 65535}

\* relay indices and gpio numbers the HTTP handlers are called with
HttpRelays == {1, 8}
HttpGpios == {0, 2, 26, 40}

\* the time that passes in one step of the clock
TimeSteps == {15000, 15001}
\* millis() in the first state: just after setup(), or shortly before it wraps
BootTimes == {U32Of(3000), <<U16 - 1, U16 - 20000>>}

\* ----------------------------------------------------------------- setup
\* uint8_t defPins[NUM_RELAYS] = {26, 25, 27, 14, 33, 32, 13, 12};
defPins == [i \in Relays |-> <<26, 25, 27, 14, 33, 32, 13, 12>>[i + 1]]

\* void setAllRelays(bool on)
RECURSIVE setAllFrom(_, _, _, _)
setAllFrom(h, gp, on, i) ==
  IF i >= NUM_RELAYS THEN h ELSE setAllFrom(setRelay(h, gp, i, on), gp, on, i + 1)
setAllRelays(h, gp, on) == setAllFrom(h, gp, on, 0)

\* void POST(): setRelay(i, true); delay(300); setRelay(i, false);
RECURSIVE PostFrom(_, _, _)
PostFrom(h, gp, i) ==
  IF i >= NUM_RELAYS THEN h
  ELSE PostFrom(setRelay(setRelay(h, gp, i, TRUE), gp, i, FALSE), gp, i + 1)
POST(h, gp) == PostFrom(h, gp, 0)

\* the hardware at power-on: no pin driven, relayState[] = { false }
PowerOn == [rs |-> [i \in Relays |-> FALSE], pin |-> [p \in Pins |-> "INPUT"],
            wr |-> {}, calls |-> {}, rd |-> {}]

\* setup(): STATUS_LED low, loadCfg(), setAllRelays(false), POST()
AfterSetup(gp) == POST(setAllRelays(digitalWrite(PowerOn, STATUS_LED, "LOW"), gp, FALSE), gp)

NoRelays == [i \in Relays |-> FALSE]
\* ddpReceived() is not running
NoFrame == [len |-> 0, i |-> 0]

\* cfg.relays[i].gpio = prefs.getUChar(key, ...): the defaults, or a stored
\* mapping with relay 0 on gpio 0 and relay 3 on gpio 0xFF
BootGpios == {defPins, [defPins EXCEPT ![0] = 0, ![3] = GpioNone]}

\* the state after setup(), with cfg.startChan in scs and millis() in boots
InitWith(scs, boots) ==
  /\ \E sc \in scs :
       cfg = [universe |-> ARTNET_UNIVERSE, startChan |-> sc, gpio |-> defPins]
  /\ relayState = AfterSetup(defPins).rs
  /\ pinLevel = AfterSetup(defPins).pin
  /\ packetBuffer = [k \in 0..(ETHERNET_BUFFER_MAX - 1) |-> 0]
  /\ aUDP = <<>> /\ ddpUDP = <<>> /\ e131 = <<>>
  /\ packet = NoPacket
  /\ currentcounter = 0 /\ previouscounter = 0
  /\ epoch \in boots
  /\ currentDelay = U32Of(3000)               \* currentDelay = millis() at the end of setup()
  /\ clock = 0
  /\ pc = "loop" /\ fi = NoFrame
  /\ op = "setup"
  /\ rxlen = 0 /\ reads = {} /\ wr = {} /\ calls = {}
  /\ pulled = 0 /\ q0 = <<>> /\ rs0 = NoRelays /\ enq = FALSE
  /\ lastFrame = -1
  /\ arrived = 0 /\ remaps = 0 /\ sets = 0
  /\ seen = NoRelays

\* packetBuffer before any datagram was read: a global, zero-initialised
FreshBuffer == [k \in 0..(ETHERNET_BUFFER_MAX - 1) |-> 0]

\* cfg.startChan = 1, the default of loadCfg()
Init == InitWith({1}, {U32Of(3000)})

\* ------------------------------------------------------------- arrivals
\* what a step that issues no setRelay and reads no datagram leaves behind
Quiet(name) ==
  /\ op' = name
  /\ rxlen' = 0 /\ reads' = {} /\ wr' = {} /\ calls' = {}
  /\ packet' = NoPacket

\* a datagram reaches the Art-Net socket (aUDP.begin(ARTNET_PORT))
ArtRx(d) ==
  /\ arrived < MaxArrivals
  /\ Len(aUDP) < MaxSock
  /\ aUDP' = Append(aUDP, d)
  /\ arrived' = arrived + 1
  /\ Quiet("artrx")
  /\ UNCHANGED <<cfg, relayState, pinLevel, packetBuffer, ddpUDP, e131,
                 currentcounter, previouscounter, currentDelay, epoch, fi, seen, clock, pc,
                 pulled, q0, rs0, enq, lastFrame, remaps, sets>>

\* a datagram reaches the DDP socket (ddpUDP.begin(DDP_PORT))
DdpRx(d) ==
  /\ arrived < MaxArrivals
  /\ Len(ddpUDP) < MaxSock
  /\ ddpUDP' = Append(ddpUDP, d)
  /\ arrived' = arrived + 1
  /\ Quiet("ddprx")
  /\ UNCHANGED <<cfg, relayState, pinLevel, packetBuffer, aUDP, e131,
                 currentcounter, previouscounter, currentDelay, epoch, fi, seen, clock, pc,
                 pulled, q0, rs0, enq, lastFrame, remaps, sets>>

\* the asynchronous receiver appends a packet to its ring buffer of
\* QueueDepth packets; a packet that finds it full is dropped
Enqueue(p) ==
  /\ Len(e131) < QueueDepth
  /\ e131' = Append(e131, p)
  /\ enq' = (enq \/ pc = "drain")
  /\ Quiet("e131rx")
  /\ UNCHANGED <<cfg, relayState, pinLevel, packetBuffer, aUDP, ddpUDP,
                 currentcounter, previouscounter, currentDelay, epoch, fi, seen, clock, pc,
                 pulled, q0, rs0, lastFrame, remaps, sets>>

\* an E1.31 packet arrives (e131.begin(E131_MULTICAST, cfg.universe, 1))
E131Rx(p) ==
  /\ arrived < MaxArrivals
  /\ arrived' = arrived + 1
  /\ Enqueue(p)

\* time passes
Advance(d) ==
  /\ clock + d <= MaxTime
  /\ clock' = clock + d
  /\ Quiet("time")
  /\ UNCHANGED <<cfg, relayState, pinLevel, packetBuffer, aUDP, ddpUDP, e131,
                 currentcounter, previouscounter, currentDelay, epoch, fi, seen, pc,
                 pulled, q0, rs0, enq, lastFrame, arrived, remaps, sets>>

\* -------------------------------------------------------- handlePackets
\* aUDP.read(packetBuffer, packetSize): the first n bytes of the datagram
UdpRead(buf, d, n) ==
  [k \in 0..(ETHERNET_BUFFER_MAX - 1) |-> IF k < n THEN d[k + 1] ELSE buf[k]]

\* if (packetSize > ETHERNET_BUFFER_MAX) packetSize = ETHERNET_BUFFER_MAX;
PacketSize(d) == Min(Len(d), ETHERNET_BUFFER_MAX)

\* if (currentcounter != previouscounter) currentDelay = millis();
NextDelay == IF currentcounter # previouscounter THEN Millis ELSE currentDelay

\* millis() - currentDelay > 30000, in unsigned long arithmetic
Expired == Gt32(Sub32(Millis, NextDelay), TimeoutMs)

\* the timeout logic at the head of handlePackets: the hardware after it
Liveness == IF Expired THEN digitalWrite(Hw0, STATUS_LED, "LOW") ELSE Hw0

\* currentcounter++ on a volatile byte
Bump(c) == (c + 1) % U8

\* what a step of handlePackets leaves behind
Done(name, h, len, pkt) ==
  /\ op' = name
  /\ relayState' = h.rs /\ pinLevel' = h.pin
  /\ rxlen' = len /\ reads' = h.rd /\ wr' = h.wr /\ calls' = h.calls
  /\ packet' = pkt

\* mutant: branch 1 falls through to the E1.31 drain
AfterArtFallThrough == "drain"

\* return; at the end of branch 1: the call is over
AfterArt == "loop"

\* mutant: the newest packet is pulled
E131Back(q) == q[Len(q)]

\* e131.pull(&packet): the oldest packet of the ring buffer
E131Front(q) == Head(q)

\* handlePackets() with a datagram waiting at the Art-Net socket:
\* timeout logic, branch 1, return
HP_Art ==
  /\ pc = "loop"
  /\ aUDP # <<>>
  /\ LET d == Head(aUDP)
         n == PacketSize(d)
         buf == UdpRead(packetBuffer, d, n)
         isDmx == artNetOpCode(buf) = ARTNET_ARTDMX
         h1 == [Liveness EXCEPT !.rd = ArtOpCodeReads(buf)]
         h2 == IF isDmx
               THEN digitalWrite(artDMXReceived(h1, cfg.gpio, buf), STATUS_LED, "HIGH")
               ELSE h1
     IN /\ aUDP' = Tail(aUDP)
        /\ packetBuffer' = buf
        /\ currentcounter' = IF isDmx THEN Bump(currentcounter) ELSE currentcounter
        /\ lastFrame' = IF isDmx THEN clock ELSE lastFrame
        /\ Done("art", h2, n, NoPacket)
  /\ previouscounter' = currentcounter
  /\ currentDelay' = NextDelay
  /\ pc' = AfterArt
  /\ pulled' = 0 /\ q0' = <<>> /\ rs0' = NoRelays /\ enq' = FALSE
  /\ UNCHANGED <<cfg, ddpUDP, e131, epoch, fi, seen, clock, arrived, remaps, sets>>

\* handlePackets() with no datagram at the Art-Net socket: timeout logic,
\* then on to the head of the E1.31 drain loop
HP_Enter ==
  /\ pc = "loop"
  /\ aUDP = <<>>
  /\ previouscounter' = currentcounter
  /\ currentDelay' = NextDelay
  /\ pc' = "drain"
  /\ pulled' = 0 /\ q0' = e131 /\ rs0' = relayState /\ enq' = FALSE
  /\ Done("enter", Liveness, 0, NoPacket)
  /\ UNCHANGED <<cfg, packetBuffer, aUDP, ddpUDP, e131, currentcounter,
                 epoch, fi, seen, clock, lastFrame, arrived, remaps, sets>>

\* one iteration of while (!e131.isEmpty()): pull, apply, count
HP_Pull ==
  /\ pc = "drain"
  /\ e131 # <<>>
  /\ LET pkt == E131Front(e131)
         h1 == E131Loop(Hw0, cfg.gpio, cfg.startChan, pkt, 0)
         h2 == digitalWrite(h1, STATUS_LED, "HIGH")
     IN Done("pull", h2, 0, pkt)
  /\ e131' = Tail(e131)
  /\ currentcounter' = Bump(currentcounter)
  /\ pulled' = Min(pulled + 1, MaxPulls)
  /\ lastFrame' = clock
  /\ UNCHANGED <<cfg, packetBuffer, aUDP, ddpUDP, previouscounter, currentDelay,
                 epoch, fi, seen, clock, pc, q0, rs0, enq, arrived, remaps, sets>>

\* e131.isEmpty(): the drain loop ends
HP_Exit ==
  /\ pc = "drain"
  /\ e131 = <<>>
  /\ pc' = "ddp"
  /\ Quiet("exit")
  /\ UNCHANGED <<cfg, relayState, pinLevel, packetBuffer, aUDP, ddpUDP, e131,
                 currentcounter, previouscounter, currentDelay, epoch, fi, seen, clock,
                 pulled, q0, rs0, enq, lastFrame, arrived, remaps, sets>>

\* branch 3 with a datagram waiting at the DDP socket.  Serial.print("BUFFER" +
\* packetBuffer[packetSize]) reads packetBuffer at index packetSize.
HP_Ddp ==
  /\ pc = "ddp"
  /\ ddpUDP # <<>>
  /\ LET d == Head(ddpUDP)
         n == PacketSize(d)
         buf == UdpRead(packetBuffer, d, n)
         h1 == [Hw0 EXCEPT !.rd = {n}]
         h2 == digitalWrite(ddpReceived(h1, cfg.gpio, buf, n), STATUS_LED, "HIGH")
     IN /\ ddpUDP' = Tail(ddpUDP)
        /\ packetBuffer' = buf
        /\ Done("ddp", h2, n, NoPacket)
  /\ currentcounter' = Bump(currentcounter)
  /\ lastFrame' = clock
  /\ pc' = "loop"
  /\ pulled' = 0 /\ q0' = <<>> /\ rs0' = NoRelays /\ enq' = FALSE
  /\ UNCHANGED <<cfg, aUDP, e131, previouscounter, currentDelay, epoch, fi, seen, clock,
                 arrived, remaps, sets>>

\* branch 3 with no datagram at the DDP socket: handlePackets returns
HP_Return ==
  /\ pc = "ddp"
  /\ ddpUDP = <<>>
  /\ pc' = "loop"
  /\ pulled' = 0 /\ q0' = <<>> /\ rs0' = NoRelays /\ enq' = FALSE
  /\ Quiet("return")
  /\ UNCHANGED <<cfg, relayState, pinLevel, packetBuffer, aUDP, ddpUDP, e131,
                 currentcounter, previouscounter, currentDelay, epoch, fi, seen, clock,
                 lastFrame, arrived, remaps, sets>>

\* ---------------------------------------- handlePackets, statement by statement
\* The HTTP handlers run in the task of the asynchronous web server, not in
\* loop(): branch 3 is split at every iteration of the for loop of ddpReceived().

\* i < NUM_RELAYS and no return or break before the body: len > 10, offset + i < dataLen
DdpLoopRuns(buf, len, i) ==
  /\ len > DDP_HEADER_LEN
  /\ i < NUM_RELAYS
  /\ Lt32(Add32(DdpOffset(buf), U32Of(i)), DdpDataLen(buf, len))

\* ddpUDP.read(packetBuffer, packetSize) and the call of ddpReceived()
HP_DdpRead ==
  /\ pc = "ddp"
  /\ ddpUDP # <<>>
  /\ LET d == Head(ddpUDP)
         n == PacketSize(d)
     IN /\ ddpUDP' = Tail(ddpUDP)
        /\ packetBuffer' = UdpRead(packetBuffer, d, n)
        /\ fi' = [len |-> n, i |-> 0]
        /\ Done("ddpread", [Hw0 EXCEPT !.rd = {n}], n, NoPacket)
  /\ pc' = "for"
  /\ UNCHANGED <<cfg, aUDP, e131, currentcounter, previouscounter, currentDelay,
                 epoch, clock, pulled, q0, rs0, enq, lastFrame, arrived, remaps,
                 sets, seen>>

\* one iteration of the for loop of ddpReceived()
HP_DdpFor ==
  /\ pc = "for"
  /\ DdpLoopRuns(packetBuffer, fi.len, fi.i)
  /\ LET idx == DDP_HEADER_LEN + Add32(DdpOffset(packetBuffer), U32Of(fi.i))[2]
         h == ApplyByte(Hw0, cfg.gpio, fi.i, packetBuffer[idx])
     IN Done("ddpfor", [h EXCEPT !.rd = {idx}], fi.len, NoPacket)
  /\ fi' = [fi EXCEPT !.i = @ + 1]
  /\ UNCHANGED <<cfg, packetBuffer, aUDP, ddpUDP, e131, currentcounter,
                 previouscounter, currentDelay, epoch, clock, pc, pulled, q0, rs0,
                 enq, lastFrame, arrived, remaps, sets, seen>>

\* ddpReceived() returns: currentcounter++, status LED, return
HP_DdpDone ==
  /\ pc = "for"
  /\ ~DdpLoopRuns(packetBuffer, fi.len, fi.i)
  /\ Done("ddpdone", digitalWrite(Hw0, STATUS_LED, "HIGH"), fi.len, NoPacket)
  /\ currentcounter' = Bump(currentcounter)
  /\ lastFrame' = clock
  /\ pc' = "loop" /\ fi' = NoFrame
  /\ pulled' = 0 /\ q0' = <<>> /\ rs0' = NoRelays /\ enq' = FALSE
  /\ UNCHANGED <<cfg, packetBuffer, aUDP, ddpUDP, e131, previouscounter,
                 currentDelay, epoch, clock, arrived, remaps, sets, seen>>

\* ------------------------------------------------------------------ HTTP
\* POST /api/set relay=<idx>&value=<val>, wherever handlePackets() stands
ApiSetAsync(idx, val) ==
  /\ sets < MaxSets
  /\ sets' = sets + 1
  /\ LET h == IF idx >= 0 /\ idx < NUM_RELAYS
              THEN setRelay(Hw0, cfg.gpio, idx, val) ELSE Hw0
     IN Done("set", h, 0, NoPacket)
  /\ UNCHANGED <<cfg, packetBuffer, aUDP, ddpUDP, e131, currentcounter,
                 previouscounter, currentDelay, epoch, fi, seen, clock, pc,
                 pulled, q0, rs0, enq, lastFrame, arrived, remaps>>

\* POST /api/set between two calls of handlePackets()
ApiSet(idx, val) == pc = "loop" /\ ApiSetAsync(idx, val)

\* GET /api/config: o["state"] = relayState[i] for every relay
ApiConfig ==
  /\ seen' = relayState
  /\ op' = "config"
  /\ UNCHANGED <<prog, rxlen, reads, wr, calls, pulled, q0, rs0, enq, lastFrame,
                 arrived, remaps, sets>>

\* POST /api/set_gpio relay=<idx>&gpio=<gpio>
ApiSetGpio(idx, gpio) ==
  /\ pc = "loop"
  /\ remaps < MaxRemaps
  /\ remaps' = remaps + 1
  /\ LET ok == idx >= 0 /\ idx < NUM_RELAYS /\ gpio >= 0 /\ gpio <= MaxGpio
         gp == IF ok THEN [cfg.gpio EXCEPT ![idx] = gpio % U8] ELSE cfg.gpio
         h == IF ok THEN setRelay(Hw0, gp, idx, relayState[idx]) ELSE Hw0
     IN /\ cfg' = [cfg EXCEPT !.gpio = gp]
        /\ Done("set_gpio", h, 0, NoPacket)
  /\ UNCHANGED <<packetBuffer, aUDP, ddpUDP, e131, currentcounter,
                 previouscounter, currentDelay, epoch, fi, seen, clock, pc,
                 pulled, q0, rs0, enq, lastFrame, arrived, sets>>

\* ------------------------------------------------------- specifications
\* The ingestion loop under traffic of all three protocols.
ArtMain == {ArtDmxOurs, ArtDmxOther, ArtPoll, ArtTrunc}
DdpMain == {DdpFull, DdpShort}
E131Main == {E131Full, E131Five}

Next ==
  \/ \E d \in ArtMain : ArtRx(d)
  \/ \E d \in DdpMain : DdpRx(d)
  \/ \E p \in E131Main : E131Rx(p)
  \/ HP_Art
  \/ HP_Enter
  \/ HP_Pull
  \/ HP_Exit
  \/ HP_Ddp
  \/ HP_Return

Spec == Init /\ [][Next]_vars

\* DDP traffic of every shape, with relays set and remapped over HTTP.
NextDdp ==
  \/ \E d \in DdpDatagrams : DdpRx(d)
  \/ HP_Enter
  \/ HP_Exit
  \/ HP_Ddp
  \/ HP_Return
  \/ \E idx \in HttpRelays, val \in BOOLEAN : ApiSet(idx, val)
  \/ \E idx \in HttpRelays, gpio \in HttpGpios : ApiSetGpio(idx, gpio)

SpecDdp == Init /\ [][NextDdp]_vars

\* E1.31 traffic under every start channel, with relays remapped over HTTP.
InitE131 == InitWith(StartChans, {U32Of(3000)})

NextE131 ==
  \/ \E p \in E131Packets : E131Rx(p)
  \/ HP_Enter
  \/ HP_Pull
  \/ HP_Exit
  \/ HP_Return
  \/ \E idx \in HttpRelays, gpio \in HttpGpios : ApiSetGpio(idx, gpio)

SpecE131 == InitE131 /\ [][NextE131]_vars

\* A burst of E1.31 packets that arrives while the first drain that counts
\* frames is running; time passes between two calls of handlePackets.
E131Burst ==
  /\ pc = "drain"
  /\ pulled + Len(e131) < MaxPulls
  /\ currentcounter = pulled % U8
  /\ Enqueue(E131Full)
  /\ UNCHANGED arrived

Pause(d) == pc = "loop" /\ Advance(d)

InitFlood == InitWith({1}, BootTimes)

NextFlood ==
  \/ E131Burst
  \/ \E d \in TimeSteps : Pause(d)
  \/ HP_Enter
  \/ HP_Pull
  \/ HP_Exit
  \/ HP_Return

SpecFlood == InitFlood /\ [][NextFlood]_vars

\* Silence on every socket: time passes between two calls of handlePackets
\* while relays are set and remapped over HTTP.
NextIdle ==
  \/ \E d \in TimeSteps : Pause(d)
  \/ HP_Enter
  \/ HP_Exit
  \/ HP_Return
  \/ \E idx \in HttpRelays, val \in BOOLEAN : ApiSet(idx, val)
  \/ \E idx \in HttpRelays, gpio \in HttpGpios : ApiSetGpio(idx, gpio)

SpecIdle == Init /\ [][NextIdle]_vars

\* loop() calls handlePackets() for ever, and every call runs on.  A DDP
\* datagram is waiting; during the drain of a call before which no frame was
\* counted, the next E1.31 packet arrives whenever the queue has run empty.
E131Stream ==
  /\ pc = "drain"
  /\ previouscounter = 0
  /\ ddpUDP # <<>>
  /\ e131 = <<>>
  /\ Enqueue(E131Full)
  /\ UNCHANGED arrived

NextLive ==
  \/ DdpRx(DdpFull)
  \/ E131Stream
  \/ HP_Enter
  \/ HP_Pull
  \/ HP_Exit
  \/ HP_Ddp
  \/ HP_Return

Running == HP_Enter \/ HP_Pull \/ HP_Exit \/ HP_Ddp \/ HP_Return

SpecLive == Init /\ [][NextLive]_vars /\ WF_vars(Running)

\* DDP frames applied relay by relay while the web server's task serves
\* GET /api/config and POST /api/set.
DdpRace == {DdpFull, DdpThree}

NextRace ==
  \/ \E d \in DdpRace : DdpRx(d)
  \/ HP_Enter
  \/ HP_Exit
  \/ HP_DdpRead
  \/ HP_DdpFor
  \/ HP_DdpDone
  \/ HP_Return
  \/ ApiConfig
  \/ \E idx \in HttpRelays, val \in BOOLEAN : ApiSetAsync(idx, val)

SpecRace == Init /\ [][NextRace]_vars

\* ---------------------------------------------------------------- claims
Led == pinLevel[STATUS_LED]
Mapped(i) == ~IsUnmapped(cfg.gpio[i])
\* the steps of handlePackets
HpSteps == {"art", "enter", "pull", "exit", "ddp", "return"}

\* the datagram in buf is an ArtDMX packet: signature, version >= 14, opcode 0x5000
IsArtDmx(buf) ==
  /\ \A k \in 0..7 : buf[k] = ArtNetId[k + 1]
  /\ buf[11] >= 14
  /\ buf[8] = 0 /\ buf[9] = 80

\* its low nibble is the configured universe modulo 16 and its subnet nibble is 0
IsAddressedHere(buf) ==
  /\ buf[14] % 16 = cfg.universe % 16
  /\ buf[14] \div 16 = ARTNET_SUBNET

\* C1: after one call of handlePackets that read an ArtDMX packet addressed to
\* the configured universe and subnet 0, every mapped relay i is on exactly
\* when channel byte 18 + i of the packet is above 127.
C1_ArtDmxApplied ==
  (op = "art" /\ rxlen >= ARTNET_START_ADDRESS + NUM_RELAYS
     /\ IsArtDmx(packetBuffer) /\ IsAddressedHere(packetBuffer))
  => \A i \in Relays :
       Mapped(i) => relayState[i] = (packetBuffer[ARTNET_START_ADDRESS + i] > 127)

\* C2: a call of handlePackets that reads an ArtDMX packet for another
\* universe or subnet, or a DDP datagram of at most 10 bytes, leaves the frame
\* counter and the status indicator as they were.
C2_OnlyValidFramesCount ==
  [][ (\/ op' = "art" /\ IsArtDmx(packetBuffer') /\ ~IsAddressedHere(packetBuffer')
       \/ op' = "ddp" /\ rxlen' <= DDP_HEADER_LEN)
      => (currentcounter' = currentcounter /\ Led' = Led) ]_vars

\* C3: one call of handlePackets pulls at most the queue depth (10) E1.31 packets.
C3_PullsBounded == pulled <= QueueDepth

\* C4: processing a DDP datagram reads no packetBuffer index at or beyond the
\* received length, and a datagram of at most 10 bytes is not read at all and
\* issues no setRelay.
C4_DdpReadsInBounds ==
  op = "ddp" =>
    /\ \A k \in reads : k < rxlen
    /\ rxlen <= DDP_HEADER_LEN => (reads = {} /\ calls = {})

C6_IndicatorHeld ==
  (lastFrame >= 0 /\ clock - lastFrame <= TimeoutMs) => Led = "HIGH"

\* effective = min(declared dataLen, length - 10)
DdpEffective(buf, len) == Min(DdpDeclaredLen(buf), len - DDP_HEADER_LEN)
\* offset + i < effective, in the integers
DdpCovers(buf, len, i) ==
  DdpOffset(buf)[1] = 0 /\ DdpOffset(buf)[2] + i < DdpEffective(buf, len)
\* payload[offset + i]
DdpPayload(buf, i) == buf[DDP_HEADER_LEN + DdpOffset(buf)[2] + i]

Covering(q, i) == {k \in 1..Len(q) : cfg.startChan + i < q[k].count}
\* the decision of packet p for relay i
E131Decision(p, i) == p.values[cfg.startChan + i + 1] > 127
\* the decision of the last packet of q0 that covers relay i, rs0[i] if none does
DrainResult(i) ==
  IF Covering(q0, i) = {} THEN rs0[i]
  ELSE LET k == CHOOSE k \in Covering(q0, i) : \A j \in Covering(q0, i) : j <= k
       IN E131Decision(q0[k], i)

\* the drain loop has just ended and nothing was enqueued while it ran
Drained == op = "exit" /\ ~enq

DgramIsArtDmx(d) ==
  /\ Len(d) >= 12
  /\ \A k \in 1..8 : d[k] = ArtNetId[k]
  /\ d[12] >= 14
  /\ d[9] = ARTNET_ARTDMX % 256 /\ d[10] = ARTNET_ARTDMX \div 256

\* C11: a call of handlePackets that reads, at the Art-Net socket, a datagram
\* that does not carry the signature, or whose version byte is below 14, or
\* whose opcode is not 0x5000, changes no relay state, writes no relay pin,
\* leaves the frame counter as it was and does not assert the indicator.
C11_RejectedArtNetIgnored ==
  [][ (op' = "art" /\ ~DgramIsArtDmx(Head(aUDP)))
      => /\ relayState' = relayState
         /\ \A i \in Relays : Mapped(i) => cfg.gpio[i] \notin wr'
         /\ currentcounter' = currentcounter
         /\ Led' = Led ]_vars

\* C12: pin 0 and pin 0xFF are never written, by setup() under any stored
\* mapping nor by any later step, and no step changes the relayState entry of
\* a relay whose gpio is 0 or 0xFF.
C12_UnmappedNeverDriven ==
  /\ [](/\ 0 \notin wr /\ GpioNone \notin wr
        /\ pinLevel[0] = "INPUT"
        /\ \A gp \in BootGpios :
             LET h == AfterSetup(gp)
             IN /\ 0 \notin h.wr /\ GpioNone \notin h.wr
                /\ \A i \in Relays : IsUnmapped(gp[i]) => h.rs[i] = PowerOn.rs[i])
  /\ [][ \A i \in Relays :
           IsUnmapped(cfg'.gpio[i]) => relayState'[i] = relayState[i] ]_vars

\* a DDP frame asked for relay 1 on while relay 1 was mapped to gpio 0
C12_Witness ==
  /\ op = "ddp" /\ cfg.gpio[1] = 0
  /\ <<1, 255, TRUE>> \in calls
  /\ ~relayState[1] /\ pinLevel[0] = "INPUT"

\* C13: under every start channel, no setRelay the E1.31 path issues takes its
\* byte from property_values[0]: the index startChan + i, in uint16_t, is
\* never 0 for a relay the packet sets.
C13_StartCodeSkipped ==
  op = "pull" => \A c \in calls : (cfg.startChan + c[1]) % U16 # 0

\* C14: the frame counter never decreases, and inside a call of handlePackets
\* it exceeds its value at the start of the call by the number of frames the
\* call has counted.
C14_CounterMonotonic ==
  /\ [][ currentcounter' >= currentcounter ]_vars
  /\ [](pc \in {"drain", "ddp"} => currentcounter = previouscounter + pulled)

\* C15: a call of handlePackets that finds the 30000 ms window expired and no
\* packet to process leaves every relayState entry and the level of every
\* relay's pin as they were.
C15_TimeoutKeepsRelays ==
  [][ (op' = "enter" /\ Expired)
      => /\ relayState' = relayState
         /\ \A i \in Relays :
              Mapped(i) => pinLevel'[cfg.gpio[i]] = pinLevel[cfg.gpio[i]] ]_vars

\* C16: with the Art-Net socket silent, the step of handlePackets that follows
\* the E1.31 drain consumes exactly the oldest waiting DDP datagram and ends
\* the call, and a DDP datagram that is waiting is eventually processed.
C16_DdpAfterDrain ==
  /\ [][ (pc = "ddp" /\ ddpUDP # <<>> /\ op' \in HpSteps)
         => (op' = "ddp" /\ ddpUDP' = Tail(ddpUDP) /\ pc' = "loop") ]_vars
  /\ [][ op' = "ddp" => pc = "ddp" ]_vars
  /\ (ddpUDP # <<>>) ~> (op = "ddp")

\* ddpReceived() has applied its frame to some, not all, of the relays it covers
MidFrame ==
  /\ pc = "for"
  /\ fi.i > 0
  /\ DdpLoopRuns(packetBuffer, fi.len, fi.i)

\* relayState once the frame in packetBuffer is applied in full to the relay
\* states this call of handlePackets began with
FrameResult == ddpReceived([Hw0 EXCEPT !.rs = rs0], cfg.gpio, packetBuffer, fi.len).rs

\* C17: a GET /api/config served while ddpReceived() runs reports the relay
\* states from before the frame or those from after it, never a mixture, and
\* no POST /api/set runs while a frame has been applied to some but not all of
\* the relays it covers.
C17_FrameAtomic ==
  /\ (op = "config" /\ pc = "for" /\ sets = 0) => seen \in {rs0, FrameResult}
  /\ op = "set" => ~MidFrame

\* C18: a call of handlePackets that reads an Art-Net datagram has the effect
\* the same datagram has in a run where no datagram was read before it: the
\* frame is counted, the indicator asserted and the relays set exactly as when
\* the datagram is read into an untouched packetBuffer.
C18_OwnBytesOnly ==
  [][ op' = "art"
      => LET d == Head(aUDP)
             alone == UdpRead(FreshBuffer, d, PacketSize(d))
             counted == artNetOpCode(alone) = ARTNET_ARTDMX
         IN /\ (currentcounter' # currentcounter) = counted
            /\ (STATUS_LED \in wr') = counted
            /\ relayState' = IF counted
                             THEN artDMXReceived(Hw0, cfg.gpio, alone).rs
                             ELSE relayState ]_vars

\* C19: the pin of every relay whose gpio is mapped is at the level of the
\* relay's relayState entry.
C19_PinMatchesState ==
  \A i \in Relays : Mapped(i) => pinLevel[cfg.gpio[i]] = Level(relayState[i])

\* C20: when the E1.31 drain of a call of handlePackets has counted at least
\* one frame, currentcounter differs from previouscounter, so that the next
\* call refreshes currentDelay.
C20_CountedTickSeen ==
  (pc = "ddp" /\ pulled > 0) => currentcounter # previouscounter

====
